---- MODULE Spec2Model ----
(***************************************************************************)
(* Model of the three XML report parsers (Trades, Transfers, Financial     *)
(* Operations) of src/parsers and of the helpers of src/utils.py they use. *)
(*                                                                         *)
(* Text values are sequences of one-character strings, so that strip,      *)
(* lower, replace and the numeric parsers are computed on the characters.  *)
(* Cyrillic literals of the source are transliterated to ASCII letters     *)
(* ("perevod", "konvertaciya"), since the module is ASCII only.  Date and   *)
(* time texts are one-element sequences holding the whole text; the date   *)
(* parsers are tabulated on them.                                          *)
(***************************************************************************)
EXTENDS Integers, Sequences, FiniteSets, TLC

VARIABLES parser, input, pc, cleanup_needed, tmpExists, unlinkCalls,
          stats, ops, outcomes, cur, cls, retOps, diag, doc, seen

vars == <<parser, input, pc, cleanup_needed, tmpExists, unlinkCalls,
          stats, ops, outcomes, cur, cls, retOps, diag, doc, seen>>

\* Number of row elements (details / rn) one document holds at most.
MaxRows == 2

\* Python's None, distinct from every text (no text holds this element).
None == <<"<None>">>

\* Marker for "the call raised" where a Python function may raise.
Raised == <<"<raised>">>

(***************************************************************************)
(* Text helpers (str methods of Python on the characters used here).       *)
(***************************************************************************)
Digits == <<"0", "1", "2", "3", "4", "5", "6", "7", "8", "9">>

IsDigit(c) == \E i \in 1..10 : Digits[i] = c

DigitVal(c) == (CHOOSE i \in 1..10 : Digits[i] = c) - 1

UpperChars == <<"A","B","C","D","E","F","G","H","I","J","K","L","M",
                "N","O","P","Q","R","S","T","U","V","W","X","Y","Z">>

LowerChars == <<"a","b","c","d","e","f","g","h","i","j","k","l","m",
                "n","o","p","q","r","s","t","u","v","w","x","y","z">>

\* str.lower() on one character.
LowerChar(c) ==
    IF \E i \in 1..26 : UpperChars[i] = c
    THEN LowerChars[CHOOSE i \in 1..26 : UpperChars[i] = c]
    ELSE c

\* str.lower()
Lower(s) == [i \in 1..Len(s) |-> LowerChar(s[i])]

\* str.strip(): drops leading and trailing blanks.
Strip(s) ==
    IF \A i \in 1..Len(s) : s[i] = " "
    THEN << >>
    ELSE LET a == CHOOSE i \in 1..Len(s) :
                      s[i] # " " /\ \A j \in 1..(i - 1) : s[j] = " "
             b == CHOOSE i \in 1..Len(s) :
                      s[i] # " " /\ \A j \in (i + 1)..Len(s) : s[j] = " "
         IN  SubSeq(s, a, b)

\* str.replace(" ", "")
RemoveBlanks(s) == SelectSeq(s, LAMBDA c : c # " ")

\* str.replace(",", ".")
CommaToDot(s) == [i \in 1..Len(s) |-> IF s[i] = "," THEN "." ELSE s[i]]

\* sub in s
Contains(s, sub) ==
    \E i \in 1..(Len(s) - Len(sub) + 1) : SubSeq(s, i, i + Len(sub) - 1) = sub

\* Python truthiness of an Optional[str].
Truthy(v) == v # None /\ v # << >>

\* a or b
Or(a, b) == IF Truthy(a) THEN a ELSE b

(***************************************************************************)
(* Numbers.  A float or Decimal value is a record: kind "fin" with sign s, *)
(* non-negative coefficient c and exponent e (value s * c * 10^e), kind    *)
(* "inf" with sign s, or kind "nan".                                       *)
(***************************************************************************)
Fin(s, c, e) == [k |-> "fin", s |-> s, c |-> c, e |-> e]
Inf(s) == [k |-> "inf", s |-> s, c |-> 0, e |-> 0]
NaN == [k |-> "nan", s |-> 1, c |-> 0, e |-> 0]
Zero == Fin(1, 0, 0)
\* The conversion raised (ValueError / InvalidOperation) instead of a value.
NoNumber == [k |-> "raised", s |-> 1, c |-> 0, e |-> 0]

RECURSIVE Pow10(_)
Pow10(n) == IF n <= 0 THEN 1 ELSE 10 * Pow10(n - 1)

RECURSIVE DigitsToInt(_)
DigitsToInt(s) ==
    IF s = << >> THEN 0
    ELSE 10 * DigitsToInt(SubSeq(s, 1, Len(s) - 1)) + DigitVal(s[Len(s)])

\* The literal grammar shared by float(str) and Decimal(str), without the
\* exponent part: blanks around, a sign, then digits with at most one point,
\* or nan / inf / infinity in any case.  NoNumber when the text is no number.
ParseDigits(sgn, ip, fp) ==
    IF /\ Len(ip) + Len(fp) >= 1
       /\ \A i \in 1..Len(ip) : IsDigit(ip[i])
       /\ \A i \in 1..Len(fp) : IsDigit(fp[i])
    THEN Fin(sgn, DigitsToInt(ip \o fp), 0 - Len(fp))
    ELSE NoNumber

\* The literal after its sign; pts are the positions of its points.
ParsePointed(sgn, body, pts) ==
    IF Cardinality(pts) > 1 THEN NoNumber
    ELSE IF pts = {} THEN ParseDigits(sgn, body, << >>)
    ELSE ParseDigits(sgn, SubSeq(body, 1, (CHOOSE i \in pts : TRUE) - 1),
                     SubSeq(body, (CHOOSE i \in pts : TRUE) + 1, Len(body)))

\* The literal after its sign; low is its lower-case form.
ParseBody(sgn, body, low) ==
    IF low = <<"n", "a", "n">> THEN NaN
    ELSE IF low \in {<<"i", "n", "f">>, <<"i", "n", "f", "i", "n", "i", "t", "y">>}
         THEN Inf(sgn)
    ELSE ParsePointed(sgn, body, {i \in 1..Len(body) : body[i] = "."})

\* The literal without the blanks around it.
ParseSigned(sgn, body) == ParseBody(sgn, body, Lower(body))

ParseStripped(t) ==
    ParseSigned(IF t # << >> /\ t[1] = "-" THEN -1 ELSE 1,
                IF t # << >> /\ t[1] \in {"-", "+"} THEN Tail(t) ELSE t)

ParseNumber(text) == ParseStripped(Strip(text))

IsZero(x) == x.k = "fin" /\ x.c = 0
\* x > 0 and x < 0 on floats: false for nan.
IsPositive(x) == x.k # "nan" /\ ~IsZero(x) /\ x.s = 1
IsNegative(x) == x.k # "nan" /\ ~IsZero(x) /\ x.s = -1
\* abs(x)
Abs(x) == [x EXCEPT !.s = 1]

\* round() of a finite float to an int: ties go to the even integer.
RoundHalfEven(x) ==
    LET d  == Pow10(0 - x.e)
        q  == x.c \div d
        r  == x.c % d
        up == 2 * r > d \/ (2 * r = d /\ q % 2 = 1)
    IN  IF x.e >= 0 THEN x.s * x.c * Pow10(x.e)
        ELSE x.s * (IF up THEN q + 1 ELSE q)

\* The try / except chain of to_float_safe: the first conversion that does
\* not raise gives the value, 0.0 when both raise.
FirstFloat(f1, f2) ==
    IF f1 # NoNumber THEN f1
    ELSE IF f2 # NoNumber THEN f2
    ELSE Zero

\* utils.to_float_safe
to_float_safe(v) ==
    IF v = None THEN Zero
    ELSE IF Strip(v) \in {<< >>, <<"-">>, <<"-", "-">>} THEN Zero
    ELSE FirstFloat(ParseNumber(CommaToDot(RemoveBlanks(Strip(v)))),
                    ParseNumber(CommaToDot(v)))

\* int(round(f)), 0 when float() gave no finite value (it raised, or round()
\* raises on nan and on an infinity).
IntOrZero(f) == IF f.k # "fin" THEN 0 ELSE RoundHalfEven(f)

\* utils.to_int_safe: an int; 0 when float() or round() raises.
to_int_safe(v) ==
    IntOrZero(IF CommaToDot(RemoveBlanks(v)) = << >> THEN Zero
              ELSE ParseNumber(CommaToDot(RemoveBlanks(v))))

(***************************************************************************)
(* Attribute maps.                                                         *)
(***************************************************************************)
\* The attribute map holding the pairs <<key, value>> whose value is present.
Attrib(pairs) ==
    LET present == {p \in pairs : p[2] # None}
    IN  [key \in {p[1] : p \in present} |->
            (CHOOSE p \in present : p[1] = key)[2]]

\* str.lower() on the attribute names used here.
LowerKey(key) ==
    CASE key = "Qty" -> "qty"
      [] key = "Oper_Type" -> "oper_type"
      [] OTHER -> key

\* utils._normalize_attrib
normalize_attrib(attrib) ==
    [key \in {LowerKey(j) : j \in DOMAIN attrib} |->
        attrib[CHOOSE j \in DOMAIN attrib : LowerKey(j) = key]]

\* dict.get(key)
Get(attrib, key) == IF key \in DOMAIN attrib THEN attrib[key] ELSE None

(***************************************************************************)
(* Dates.  The texts below are the date and time attribute values rows     *)
(* carry; the parsers are tabulated on them.                               *)
(***************************************************************************)
\* "25.03.2024 10:00:00": matches the full pattern.
DtFull == <<"25.03.2024 10:00:00">>
\* "at 26.03.2024 09:30": matches the short pattern inside other text.
DtShort == <<"at 26.03.2024 09:30">>
\* A text holding no date at all.
DtNone == <<"soon">>
\* ISO date and time components of the Transfers report.
IsoDate == <<"2024-03-25">>
IsoDateT == <<"2024-03-25T00:00:00">>
IsoTime == <<"12:00:00">>

\* XmlParserBase.parse_datetime_from_text: a datetime, or None.
parse_datetime_from_text(s) ==
    IF ~Truthy(s) THEN None
    ELSE IF s = DtFull THEN <<"datetime(2024,3,25,10,0,0)">>
    ELSE IF s = DtShort THEN <<"datetime(2024,3,26,9,30,0)">>
    ELSE None

\* utils.parse_datetime_from_components: a datetime, or None.
parse_datetime_from_components(date_str, time_str) ==
    IF ~Truthy(date_str) THEN None
    ELSE IF date_str = IsoDate /\ time_str = IsoTime
         THEN <<"datetime(2024,3,25,12,0,0)">>
    ELSE IF date_str = IsoDateT /\ time_str = IsoTime
         THEN <<"datetime(2024,3,25,12,0,0)">>
    ELSE IF date_str \in {IsoDate, IsoDateT}
         THEN <<"datetime(2024,3,25,0,0,0)">>
    ELSE None

(***************************************************************************)
(* Float addition (total_commission += float(...)).                        *)
(***************************************************************************)
\* Signed coefficient of a finite value at exponent e (e <= x.e).
Scaled(x, e) == x.s * x.c * Pow10(x.e - e)

Min(a, b) == IF a <= b THEN a ELSE b

\* Sum of two finite values, at the smaller exponent.
FinAdd(a, b) ==
    LET e == Min(a.e, b.e)
        v == Scaled(a, e) + Scaled(b, e)
    IN  IF v < 0 THEN Fin(-1, 0 - v, e)
        ELSE IF v > 0 THEN Fin(1, v, e)
        ELSE Fin(IF a.s = -1 /\ b.s = -1 THEN -1 ELSE 1, 0, e)

\* a + b on floats.
FloatAdd(a, b) ==
    IF a.k = "nan" \/ b.k = "nan" THEN NaN
    ELSE IF a.k = "inf" /\ b.k = "inf" THEN (IF a.s = b.s THEN a ELSE NaN)
    ELSE IF a.k = "inf" THEN a
    ELSE IF b.k = "inf" THEN b
    ELSE FinAdd(a, b)

(***************************************************************************)
(* Trades parser: src/parsers/xml_trades.py                                *)
(***************************************************************************)
\* TradesParser.__init__
TradesInitStats ==
    [total_rows |-> 0, parsed |-> 0, skipped_no_date |-> 0,
     skipped_no_qty |-> 0, skipped_invalid |-> 0, total_commission |-> Zero]

\* TradesParser._extract_quantity
extract_quantity(attrib) ==
    to_int_safe(Or(Get(attrib, "qty"),
                Or(Get(attrib, "quantity"),
                Or(Get(attrib, "textbox14"),
                Or(Get(attrib, "qty "), <<"0">>)))))

date_keys ==
    <<"db_time", "dbtime", "settlement_time", "save_settlement_date",
      "save_depo_settlement_date">>

\* _extract_date falling back to the current time when no key gives a date.
extract_date_Default(attrib) ==
    LET hits == {i \in 1..Len(date_keys) :
                    parse_datetime_from_text(Get(attrib, date_keys[i])) # None}
    IN  IF hits = {} THEN <<"datetime.now()">>
        ELSE parse_datetime_from_text(
                 Get(attrib, date_keys[CHOOSE i \in hits : \A j \in hits : i <= j]))

\* TradesParser._extract_date: the first key, in the order of date_keys,
\* whose value is non-empty and parses; None when there is none.
extract_date(attrib) ==
    LET hits == {i \in 1..Len(date_keys) :
                    /\ Truthy(Get(attrib, date_keys[i]))
                    /\ parse_datetime_from_text(Get(attrib, date_keys[i])) # None}
    IN  IF hits = {} THEN None
        ELSE parse_datetime_from_text(
                 Get(attrib, date_keys[CHOOSE i \in hits : \A j \in hits : i <= j]))

TickerChars == {"-", "."}

\* t.split()[0] for a stripped, non-empty t.
FirstToken(t) ==
    IF \A i \in 1..Len(t) : t[i] # " " THEN t
    ELSE SubSeq(t, 1, (CHOOSE i \in 1..Len(t) :
                          t[i] = " " /\ \A j \in 1..(i - 1) : t[j] # " ") - 1)

\* The token when it matches [A-Za-z0-9\-\.]{1,8}, "" otherwise.
TickerOfToken(tok) ==
    IF /\ Len(tok) <= 8
       /\ \A i \in 1..Len(tok) :
             \/ IsDigit(tok[i])
             \/ tok[i] \in TickerChars
             \/ LowerChar(tok[i]) # tok[i]
             \/ \E j \in 1..26 : LowerChars[j] = tok[i]
    THEN tok
    ELSE << >>

\* TradesParser._extract_ticker_from_name: the first blank-delimited token of
\* the name when it is 1..8 letters, digits, '-' or '.'; "" otherwise.
\* str(name).strip().split()[0] raises IndexError on a name of blanks only.
extract_ticker_from_name(name) ==
    IF ~Truthy(name) THEN << >>
    ELSE IF Strip(name) = << >> THEN Raised
    ELSE TickerOfToken(FirstToken(Strip(name)))

\* TradesParser._extract_commission
extract_commission(attrib) ==
    to_float_safe(Or(Get(attrib, "bank_tax"),
                  Or(Get(attrib, "banktax"), Get(attrib, "bank_tax"))))

\* The outcome of one row handler call: the statistics after it, the record
\* it returns (None when it returns None) and how it ended.
RowResult(st, op, how) == [stats |-> st, op |-> op, how |-> how]

Bump(st, key) == [st EXCEPT ![key] = @ + 1]

\* The order of checks of TradesParser._process_details_element with the
\* date checked before the quantity.
TradesHow_DateFirst(qty, date_val, ticker, dtoOk) ==
    IF date_val = None THEN "skipped_no_date"
    ELSE IF qty = 0 THEN "skipped_no_qty"
    ELSE IF ticker = Raised THEN "raised"
    ELSE IF ~dtoOk THEN "skipped_invalid"
    ELSE "parsed"

\* How TradesParser._process_details_element ends for a row: the checks in
\* the order of the code.  The ticker is extracted, and may raise, after the
\* quantity and date checks and outside the try block of the construction.
TradesHow(qty, date_val, ticker, dtoOk) ==
    IF qty = 0 THEN "skipped_no_qty"
    ELSE IF date_val = None THEN "skipped_no_date"
    ELSE IF ticker = Raised THEN "raised"
    ELSE IF ~dtoOk THEN "skipped_invalid"
    ELSE "parsed"

\* The ticker of TradesParser._extract_instrument_data.
extract_instrument_ticker(attrib) ==
    extract_ticker_from_name(Or(Get(attrib, "p_name"),
                             Or(Get(attrib, "pname"),
                             Or(Get(attrib, "active_name"), << >>))))

\* The end of _process_details_element on the extracted fields: the skip
\* counters, and the record and the commission total of a parsed row.
TradesRowResult(st1, qty, date_val, ticker, commission, idx, how) ==
    IF how = "raised" THEN RowResult(st1, None, how)
    ELSE IF how # "parsed" THEN RowResult(Bump(st1, how), None, how)
    ELSE RowResult(
             [st1 EXCEPT !.parsed = @ + 1,
                         !.total_commission = FloatAdd(@, commission)],
             [date |-> date_val,
              operation_type |-> IF qty > 0 THEN "buy" ELSE "sale",
              quantity |-> IF qty < 0 THEN 0 - qty ELSE qty,
              ticker |-> ticker,
              commission |-> commission,
              row |-> idx],
             how)

TradesProcessFields(st1, qty, date_val, ticker, commission, idx, dtoOk) ==
    TradesRowResult(st1, qty, date_val, ticker, commission, idx,
                    TradesHow(qty, date_val, ticker, dtoOk))

\* _process_details_element on the normalized attribute map, total_rows
\* already counted in st1.
TradesProcessAttrib(attrib, st1, idx, dtoOk) ==
    TradesProcessFields(st1, extract_quantity(attrib), extract_date(attrib),
                        extract_instrument_ticker(attrib),
                        extract_commission(attrib), idx, dtoOk)

\* TradesParser._process_details_element.  elem is the raw attribute map of
\* the details element, idx its position among the details elements, dtoOk
\* whether OperationDTO(...) constructs without raising.
TradesProcessDetails(elem, st, idx, dtoOk) ==
    TradesProcessAttrib(normalize_attrib(elem), Bump(st, "total_rows"), idx, dtoOk)

(***************************************************************************)
(* Transfers parser: src/parsers/xml_transfers.py                          *)
(***************************************************************************)
\* "перевод" and "конвертация", transliterated.
Perevod == <<"p", "e", "r", "e", "v", "o", "d">>
Konvertaciya == <<"k", "o", "n", "v", "e", "r", "t", "a", "c", "i", "y", "a">>

\* TransfersParser.__init__
TransfersInitStats ==
    [total_rows |-> 0, parsed |-> 0, skipped_not_conversion |-> 0,
     skipped_no_date |-> 0, skipped_no_qty |-> 0, skipped_invalid |-> 0]

\* _is_conversion_operation with "or" in place of "and".
is_conversion_operation_Or(attrib) ==
    LET oper_type   == Lower(Strip(Or(Get(attrib, "oper_type"), << >>)))
        comment_new == Lower(Strip(Or(Get(attrib, "comment_new"), << >>)))
    IN  oper_type = Perevod \/ Contains(comment_new, Konvertaciya)

\* TransfersParser._is_conversion_operation
is_conversion_operation(attrib) ==
    LET oper_type   == Lower(Strip(Or(Get(attrib, "oper_type"), << >>)))
        comment_new == Lower(Strip(Or(Get(attrib, "comment_new"), << >>)))
    IN  oper_type = Perevod /\ Contains(comment_new, Konvertaciya)

\* TransfersParser._extract_date
transfers_extract_date(attrib) ==
    parse_datetime_from_components(Get(attrib, "settlement_date"),
                                   Get(attrib, "settlement_time"))

\* The checks of _process_details_element after the conversion filter.
TransfersProcessFields(attrib, st1, qty, date_val, idx, dtoOk) ==
    IF IsZero(qty)
    THEN RowResult(Bump(st1, "skipped_no_qty"), None, "skipped_no_qty")
    ELSE IF date_val = None
         THEN RowResult(Bump(st1, "skipped_no_date"), None, "skipped_no_date")
    ELSE IF ~dtoOk
         THEN RowResult(Bump(st1, "skipped_invalid"), None, "skipped_invalid")
    ELSE RowResult(
             Bump(st1, "parsed"),
             [date |-> date_val,
              operation_type |-> IF IsPositive(qty) THEN "asset_receive"
                                 ELSE "asset_withdrawal",
              quantity |-> Abs(qty),
              comment |-> Or(Get(attrib, "comment_new"), << >>),
              row |-> idx],
             "parsed")

\* _process_details_element on the normalized attribute map, total_rows
\* already counted in st1.
TransfersProcessAttrib(attrib, st1, idx, dtoOk) ==
    IF ~is_conversion_operation(attrib)
    THEN RowResult(Bump(st1, "skipped_not_conversion"), None,
                   "skipped_not_conversion")
    ELSE TransfersProcessFields(attrib, st1,
                                to_float_safe(Or(Get(attrib, "qty"), <<"0">>)),
                                transfers_extract_date(attrib), idx, dtoOk)

\* TransfersParser._process_details_element
TransfersProcessDetails(elem, st, idx, dtoOk) ==
    TransfersProcessAttrib(normalize_attrib(elem), Bump(st, "total_rows"), idx, dtoOk)

(***************************************************************************)
(* The details elements a document may hold.                               *)
(***************************************************************************)
QtyTexts == {None, <<"0">>, <<"2">>, <<"-", "2">>, <<"0", ",", "4">>}

\* The date attributes of a Trades row: none, a good db_time, an unparsable
\* db_time before a good save_depo_settlement_date.
TradesDateAttrs ==
    { {},
      {<<"db_time", DtFull>>},
      {<<"db_time", DtNone>>, <<"save_depo_settlement_date", DtFull>>} }

TradesRows ==
    {Attrib({<<"qty", q>>, <<"p_name", n>>} \cup d) :
        q \in QtyTexts, d \in TradesDateAttrs,
        n \in {<<"S", "B", " ", "a", "o">>, <<" ">>}}
    \cup
    {Attrib({<<"Qty", <<"-", "2">> >>, <<"db_time", DtFull>>}),
     Attrib({<<"quantity", <<"3">> >>, <<"db_time", DtFull>>,
             <<"bank_tax", <<"1", ",", "5">> >>}),
     Attrib({<<"qty", << >> >>, <<"quantity", <<"3">> >>}),
     Attrib({<<"qty", <<"x">> >>, <<"db_time", DtFull>>}),
     Attrib({<<"qty", <<"n", "a", "n">> >>, <<"db_time", DtFull>>}),
     Attrib({<<"qty", <<"1">> >>, <<"db_time", DtNone>>}),
     Attrib({<<"qty", <<"1">> >>, <<"dbtime", << >> >>,
             <<"settlement_time", DtShort>>, <<"bank_tax", <<"1", ",", "5">> >>})}

TransfersRows ==
    {Attrib({<<"oper_type", o>>, <<"comment_new", c>>, <<"qty", q>>,
             <<"settlement_date", d>>}) :
        o \in {Perevod, <<" ", "P", "E", "R", "E", "V", "O", "D", " ">>,
               <<"v", "v", "o", "d">>},
        c \in {<<"K", "o", "n", "v", "e", "r", "t", "a", "c", "i", "y", "a",
                 " ", "1">>, <<"v", "v", "o", "d">>},
        q \in {<<"0">>, <<"-", "2">>, <<"n", "a", "n">>},
        d \in {None, IsoDate}}
    \cup
    {Attrib({<<"Oper_Type", Perevod>>, <<"comment_new", Konvertaciya>>,
             <<"qty", <<"-", "5", "0", "0">> >>,
             <<"settlement_date", IsoDate>>, <<"settlement_time", IsoTime>>}),
     Attrib({<<"oper_type", Perevod>>, <<"comment_new", Konvertaciya>>,
             <<"qty", <<"2", ",", "5">> >>, <<"settlement_date", DtNone>>}),
     Attrib({<<"oper_type", Perevod>>, <<"comment_new", Konvertaciya>>,
             <<"qty", <<"2", ",", "5">> >>, <<"settlement_date", IsoDateT>>}),
     Attrib({<<"oper_type", Perevod>>, <<"comment_new", Konvertaciya>>,
             <<"settlement_date", IsoDate>>}),
     Attrib({<<"comment_new", Konvertaciya>>, <<"qty", <<"2", ",", "5">> >>,
             <<"settlement_date", IsoDate>>}),
     Attrib({<<"oper_type", Perevod>>, <<"qty", <<"2", ",", "5">> >>,
             <<"settlement_date", IsoDate>>})}

(***************************************************************************)
(* XML elements of the Financial Operations report.  A tag is the sequence *)
(* of its namespace part "{uri}", when it has one, and its local name.     *)
(***************************************************************************)
El(tag, attrib, kids) == [tag |-> tag, attrib |-> attrib, kids |-> kids]

\* "No element" (None where an Element is expected).
NoElement == El(<<"<None>">>, Attrib({}), << >>)

\* utils._local_name: tag.split("}")[-1]
local_name(tag) == tag[Len(tag)]

\* Element.iter(): the element and its descendants, in document order.
RECURSIVE IterAll(_)
IterAll(els) ==
    IF els = << >> THEN << >>
    ELSE <<Head(els)>> \o IterAll(Head(els).kids) \o IterAll(Tail(els))

Iter(el) == IterAll(<<el>>)

\* bool(element): an Element without children is false.
ElementTruthy(el) == el # NoElement /\ Len(el.kids) > 0

\* The first element of it whose local name is local, NoElement when none.
FirstWithLocalName(it, local) ==
    IF \A i \in 1..Len(it) : local_name(it[i].tag) # local THEN NoElement
    ELSE it[CHOOSE i \in 1..Len(it) :
                /\ local_name(it[i].tag) = local
                /\ \A j \in 1..(i - 1) : local_name(it[j].tag) # local]

\* FinancialOperationsParser._find_first_descendant_by_local_name
find_first_descendant_by_local_name(root, local) ==
    FirstWithLocalName(Iter(root), local)

\* The stripped text, None when it is missing or blank.
StripOrNone(v) == IF Truthy(v) /\ Strip(v) # << >> THEN Strip(v) ELSE None

\* FinancialOperationsParser._safe_attr: the stripped value, None when the
\* element is None or the value is missing or blank.
safe_attr(elem, name) ==
    IF elem = NoElement THEN None
    ELSE StripOrNone(Get(elem.attrib, name))

\* a if a is not None else b, on elements.
ElementOr(a, b) == IF a # NoElement THEN a ELSE b

\* The comment element of a row: the first one inside the oper_type element
\* when there is one, else the first one of the row.
comment_elem_of(rn_node, oper_type_elem) ==
    ElementOr(IF oper_type_elem # NoElement
              THEN find_first_descendant_by_local_name(oper_type_elem, "comment")
              ELSE NoElement,
              find_first_descendant_by_local_name(rn_node, "comment"))

\* _extract_oper_type_and_comment once the oper_type element is found.  The
\* label is read under `if oper_type_elem`, the truth value of the element.
OperTypeAndComment(rn_node, oper_type_elem) ==
    [oper_type |-> IF ElementTruthy(oper_type_elem)
                   THEN safe_attr(oper_type_elem, "oper_type")
                   ELSE << >>,
     comment |-> Or(safe_attr(comment_elem_of(rn_node, oper_type_elem), "comment"),
                    << >>)]

\* FinancialOperationsParser._extract_oper_type_and_comment
extract_oper_type_and_comment(rn_node) ==
    OperTypeAndComment(rn_node,
                       find_first_descendant_by_local_name(rn_node, "oper_type"))

\* FinancialOperationsParser._parse_decimal: a Decimal, None when the text
\* is no Decimal literal.
parse_decimal(v) ==
    IF v = None THEN NoNumber ELSE ParseNumber(CommaToDot(v))

\* FinancialOperationsParser._collect_p_code_candidates
collect_p_code_candidates(elem) ==
    IF elem = NoElement THEN << >>
    ELSE LET it == SelectSeq(Iter(elem), LAMBDA p : local_name(p.tag) = "p_code")
         IN  [i \in 1..Len(it) |-> it[i].attrib]

\* a if a is not None else b, on amounts.
NumberOr(a, b) == IF a # NoNumber THEN a ELSE b

\* _parse_decimal(vol.strip()) when vol is non-empty, else None.
VolumeAmount(vol) == IF Truthy(vol) THEN parse_decimal(Strip(vol)) ELSE NoNumber

\* The amount one candidate carries in volume / volume1 / amount.
CandidateAmount(c) ==
    VolumeAmount(Or(Get(c, "volume"), Or(Get(c, "volume1"), Get(c, "amount"))))

\* The loop over the candidates deciding on the first candidate that has a
\* non-empty volume / volume1 / amount, parsable or not.
RECURSIVE AmountOfCandidates_FirstNonEmpty(_)
AmountOfCandidates_FirstNonEmpty(cands) ==
    IF cands = << >> THEN NoNumber
    ELSE IF Truthy(Or(Get(Head(cands), "volume"),
                   Or(Get(Head(cands), "volume1"), Get(Head(cands), "amount"))))
         THEN CandidateAmount(Head(cands))
    ELSE AmountOfCandidates_FirstNonEmpty(Tail(cands))

\* The loop over the candidates: a candidate's volume / volume1 / amount is
\* parsed while the amount is still None, so the first value that parses is
\* the amount (NoNumber stands for None: no candidate carries such a value).
RECURSIVE AmountOfCandidates(_)
AmountOfCandidates(cands) ==
    IF cands = << >> THEN NoNumber
    ELSE NumberOr(CandidateAmount(Head(cands)), AmountOfCandidates(Tail(cands)))

\* The first candidate with a non-empty p_code / currency gives the currency.
RECURSIVE CurrencyOfCandidates(_)
CurrencyOfCandidates(cands) ==
    IF cands = << >> THEN << >>
    ELSE Or(StripOrNone(Or(Get(Head(cands), "p_code"), Get(Head(cands), "currency"))),
            CurrencyOfCandidates(Tail(cands)))

textbox_mapping ==
    [Textbox83 |-> "money_volume", Textbox84 |-> "all_volume",
     Textbox93 |-> "debet_volume", Textbox11 |-> "acc_code"]

\* Whether element el is a tb element carrying a non-blank value.
IsTextbox(el, tb) ==
    local_name(el.tag) = tb /\ StripOrNone(Get(el.attrib, textbox_mapping[tb])) # None

\* The stripped value of the first tb element of it that carries one.
TextboxValue(it, tb) ==
    IF \A i \in 1..Len(it) : ~IsTextbox(it[i], tb) THEN None
    ELSE Strip(Get(it[CHOOSE i \in 1..Len(it) :
                          /\ IsTextbox(it[i], tb)
                          /\ \A j \in 1..(i - 1) : ~IsTextbox(it[j], tb)].attrib,
                   textbox_mapping[tb]))

TextboxValues(it) ==
    [money_volume |-> TextboxValue(it, "Textbox83"),
     all_volume |-> TextboxValue(it, "Textbox84"),
     debet_volume |-> TextboxValue(it, "Textbox93"),
     acc_code |-> TextboxValue(it, "Textbox11")]

\* FinancialOperationsParser._extract_textbox_values: for each field the
\* stripped value of the first Textbox element that carries a non-blank one.
extract_textbox_values(comment_elem) ==
    TextboxValues(Iter(comment_elem))

\* The fallback loop over money_volume, all_volume, debet_volume.
RECURSIVE AmountOfTextboxes(_, _)
AmountOfTextboxes(values, keys) ==
    IF keys = << >> THEN NoNumber
    ELSE NumberOr(IF Truthy(values[Head(keys)]) THEN parse_decimal(values[Head(keys)])
                  ELSE NoNumber,
                  AmountOfTextboxes(values, Tail(keys)))

\* amount or Decimal("0")
OrZero(amount) == IF amount = NoNumber \/ IsZero(amount) THEN Zero ELSE amount

\* The currency and the amount given the p_code candidates of the comment
\* element; the Textbox values are read when no candidate gave an amount.
CurrencyAndAmountOf(comment_elem, candidates) ==
    [currency |-> CurrencyOfCandidates(candidates),
     amount |-> OrZero(NumberOr(AmountOfCandidates(candidates),
                                AmountOfTextboxes(extract_textbox_values(comment_elem),
                                    <<"money_volume", "all_volume", "debet_volume">>)))]

\* _extract_currency_and_amount once the comment element is found.
CurrencyAndAmount(comment_elem) ==
    IF comment_elem = NoElement
    THEN [currency |-> << >>, amount |-> NoNumber]
    ELSE CurrencyAndAmountOf(comment_elem, collect_p_code_candidates(comment_elem))

\* FinancialOperationsParser._extract_currency_and_amount; the amount is
\* NoNumber (None) only when the row has no comment element.
extract_currency_and_amount(rn_node) ==
    CurrencyAndAmount(find_first_descendant_by_local_name(rn_node, "comment"))

(***************************************************************************)
(* Decimal arithmetic and rendering.                                       *)
(***************************************************************************)
\* Precision of the decimal context (digits of a coefficient).
prec == 28

\* a + b on Decimals; NoNumber when it raises InvalidOperation.
DecimalAdd(a, b) ==
    IF a.k = "nan" \/ b.k = "nan" THEN NaN
    ELSE IF a.k = "inf" /\ b.k = "inf" THEN (IF a.s = b.s THEN a ELSE NoNumber)
    ELSE IF a.k = "inf" THEN a
    ELSE IF b.k = "inf" THEN b
    ELSE FinAdd(a, b)

RECURSIVE IntToDigits(_)
IntToDigits(n) ==
    IF n < 10 THEN <<Digits[n + 1]>>
    ELSE IntToDigits(n \div 10) \o <<Digits[(n % 10) + 1]>>

\* The digits of n, zero-padded on the left to width w.
RECURSIVE PadLeft(_, _)
PadLeft(ds, w) == IF Len(ds) >= w THEN ds ELSE PadLeft(<<"0">> \o ds, w)

\* d.quantize(Decimal("0.0001")): the coefficient at exponent -4, rounded
\* half-even; NoNumber when it raises InvalidOperation (an infinity, or a
\* coefficient longer than the context precision).
Quantize4(d) ==
    IF d.k = "nan" THEN d
    ELSE IF d.k = "inf" THEN NoNumber
    ELSE IF d.e >= -4
         THEN IF d.c # 0 /\ Len(IntToDigits(d.c)) + d.e + 4 > prec THEN NoNumber
              ELSE Fin(d.s, d.c * Pow10(d.e + 4), -4)
    ELSE LET p  == Pow10(-4 - d.e)
             q  == d.c \div p
             r  == d.c % p
             up == 2 * r > p \/ (2 * r = p /\ q % 2 = 1)
         IN  Fin(d.s, IF up THEN q + 1 ELSE q, -4)

\* "-" for a negative value.
SignText(d) == IF d.s = -1 THEN <<"-">> ELSE << >>

\* The digits w with a point before the last n of them.
PointBefore(w, n) ==
    SubSeq(w, 1, Len(w) - n) \o <<".">> \o SubSeq(w, Len(w) - n + 1, Len(w))

\* str() of the finite coefficient digits ds at exponent e: plain digits,
\* a fixed point, or scientific notation for a positive exponent.
DigitsStr(ds, e) ==
    IF e = 0 THEN ds
    ELSE IF e < 0 THEN PointBefore(PadLeft(ds, 1 - e), 0 - e)
    ELSE <<ds[1]>> \o (IF Len(ds) > 1 THEN <<".">> \o Tail(ds) ELSE << >>)
             \o <<"E", "+">> \o IntToDigits(e + Len(ds) - 1)

\* str(d)
DecimalStr(d) ==
    IF d.k = "nan" THEN <<"N", "a", "N">>
    ELSE IF d.k = "inf"
         THEN SignText(d) \o <<"I", "n", "f", "i", "n", "i", "t", "y">>
    ELSE SignText(d) \o DigitsStr(IntToDigits(d.c), d.e)

\* _format_decimal without the quantization.
format_decimal_NoQuantize(d) == DecimalStr(d)

\* format(q, "f") of the quantized value q of d; str(d) when q is NoNumber.
FormatQuantized(d, q) ==
    IF q = NoNumber THEN DecimalStr(d)
    ELSE IF q.k = "nan" THEN <<"N", "a", "N">>
    ELSE SignText(q) \o PointBefore(PadLeft(IntToDigits(q.c), 5), 4)

\* FinancialOperationsParser._format_decimal:
\* format(d.quantize(Decimal("0.0001")), "f"), str(d) when that raises.
format_decimal(d) == FormatQuantized(d, Quantize4(d))

(***************************************************************************)
(* Financial Operations parser: src/parsers/xml_fin_ops.py                 *)
(***************************************************************************)
\* The canonical tags determine_operation_type may return besides the skip
\* sentinel (the rule table of the classifier is not part of the parser).
OperationTypes == {"coupon", "commission"}

\* The skip sentinel of OperationClassifier.determine_operation_type.
SkipSentinel == "_skip_"

\* FinancialOperationsParser.__init__
FinInitStats ==
    [total_rows |-> 0, parsed |-> 0, skipped |-> 0, example_comments |-> << >>,
     amounts_by_mapped_type |-> Attrib({}), amounts_by_label |-> Attrib({}),
     total_income |-> Zero, total_expense |-> Zero]

\* dict.get(key, Decimal("0"))
GetOrZero(d, key) == IF key \in DOMAIN d THEN d[key] ELSE Zero

\* d[key] = value
Put(d, key, value) ==
    [x \in DOMAIN d \cup {key} |-> IF x = key THEN value ELSE d[x]]

\* _should_skip leaving the decision to the classifier alone.
should_skip_ClassifierOnly(oper_type, comment, amount, clsSkip) == clsSkip

\* FinancialOperationsParser._should_skip.  clsSkip is what
\* OperationClassifier.should_skip_operation returns for the row.
should_skip(oper_type, comment, amount, clsSkip) ==
    LET label_source == Or(Strip(Or(oper_type, << >>)), Strip(Or(comment, << >>)))
    IN  IF ~Truthy(label_source) /\ (amount = NoNumber \/ IsZero(OrZero(amount)))
        THEN TRUE
        ELSE clsSkip

RECURSIVE Pow5(_)
Pow5(n) == IF n <= 0 THEN 1 ELSE 5 * Pow5(n - 1)

\* The decimal values a binary float holds exactly: s * c * 10^e with e >= 0,
\* or with 5^(-e) dividing c (the denominator is then a power of two).
Dyadic(d) == d.e >= 0 \/ d.c % Pow5(0 - d.e) = 0

\* float(d): the same value when a binary float holds it, otherwise the
\* nearest float, written as kind "near" around the decimal it approximates.
FloatOf(d) ==
    IF d.k = "fin" /\ ~Dyadic(d) THEN [d EXCEPT !.k = "near"] ELSE d

\* FinancialOperationsParser._decimal_to_float
decimal_to_float(d) == IF d = NoNumber THEN Zero ELSE FloatOf(d)

\* The totals of _update_stats leaving negative amounts out of total_expense.
UpdateTotals_NoExpense(st2, amount) ==
    IF amount.k = "nan" THEN [stats |-> st2, raised |-> TRUE]
    ELSE IF IsPositive(amount)
         THEN [stats |-> [st2 EXCEPT !.total_income = DecimalAdd(@, amount)],
               raised |-> FALSE]
    ELSE [stats |-> st2, raised |-> FALSE]

\* The income / expense totals of _update_stats; `amount > 0` raises on NaN.
UpdateTotals(st2, amount) ==
    IF amount.k = "nan" THEN [stats |-> st2, raised |-> TRUE]
    ELSE IF IsPositive(amount)
         THEN [stats |-> [st2 EXCEPT !.total_income = DecimalAdd(@, amount)],
               raised |-> FALSE]
    ELSE IF IsNegative(amount)
         THEN [stats |-> [st2 EXCEPT !.total_expense = DecimalAdd(@, amount)],
               raised |-> FALSE]
    ELSE [stats |-> st2, raised |-> FALSE]

\* The per-label sum of _update_stats, byLabel being the new sum.
UpdateLabelSum(st1, amount, label_key, byLabel) ==
    IF byLabel = NoNumber THEN [stats |-> st1, raised |-> TRUE]
    ELSE UpdateTotals([st1 EXCEPT !.amounts_by_label = Put(@, label_key, byLabel)],
                      amount)

\* The per-label step of _update_stats, taken when the label key is
\* non-empty.
UpdateByLabel(st1, amount, label_key) ==
    IF Truthy(label_key)
    THEN UpdateLabelSum(st1, amount, label_key,
                        DecimalAdd(GetOrZero(st1.amounts_by_label, label_key), amount))
    ELSE UpdateTotals(st1, amount)

\* The per-type sum of _update_stats, byType being the new sum.
UpdateByType(st, amount, mapped_type, byType, label_key) ==
    IF byType = NoNumber THEN [stats |-> st, raised |-> TRUE]
    ELSE UpdateByLabel([st EXCEPT !.amounts_by_mapped_type = Put(@, mapped_type, byType)],
                       amount, label_key)

\* FinancialOperationsParser._update_stats: the statistics after the call
\* and whether it raised.  The writes made before a raise stay.
update_stats(st, oper_type, comment, amount, mapped_type) ==
    IF amount = NoNumber THEN [stats |-> st, raised |-> FALSE]
    ELSE UpdateByType(st, amount, mapped_type,
                      DecimalAdd(GetOrZero(st.amounts_by_mapped_type, mapped_type),
                                 amount),
                      Or(Strip(Or(oper_type, << >>)),
                         IF Truthy(comment) THEN Strip(comment) ELSE << >>))

\* FinancialOperationsParser._collect_example_comment
collect_example_comment(st, comment) ==
    IF Truthy(comment) /\ Len(st.example_comments) < 5
    THEN [st EXCEPT !.example_comments = Append(@, comment)]
    ELSE st

\* The end of _process_rn_node for a row that is kept; upd is the outcome of
\* _update_stats.
ProcessKept(oc, ca, upd, idx, clsType) ==
    IF upd.raised THEN RowResult(upd.stats, None, "raised")
    ELSE RowResult(
             Bump(collect_example_comment(upd.stats, oc.comment), "parsed"),
             [operation_type |-> clsType,
              payment_sum |-> decimal_to_float(ca.amount),
              currency |-> ca.currency,
              comment |-> oc.comment,
              row |-> idx],
             "parsed")

\* _process_rn_node on the extracted label and comment oc and currency and
\* amount ca, total_rows already counted in st1.
ProcessExtracted(st1, oc, ca, idx, clsSkip, clsType) ==
    IF should_skip(oc.oper_type, oc.comment, ca.amount, clsSkip)
    THEN RowResult(Bump(st1, "skipped"), None,
                   IF clsSkip THEN "skipped" ELSE "skipped_empty")
    ELSE IF clsType = SkipSentinel
         THEN RowResult(Bump(st1, "skipped"), None, "skipped")
    ELSE ProcessKept(oc, ca,
                     update_stats(st1, oc.oper_type, oc.comment, ca.amount, clsType),
                     idx, clsType)

\* FinancialOperationsParser._process_rn_node.  clsSkip and clsType are what
\* the classifier returns for the row.
process_rn_node(rn_node, st, idx, clsSkip, clsType) ==
    ProcessExtracted(Bump(st, "total_rows"), extract_oper_type_and_comment(rn_node),
                     extract_currency_and_amount(rn_node), idx, clsSkip, clsType)

\* FinancialOperationsParser._finalize_stats
finalize_stats(st) ==
    [st EXCEPT
        !.amounts_by_mapped_type = [key \in DOMAIN @ |-> format_decimal(@[key])],
        !.amounts_by_label = [key \in DOMAIN @ |-> format_decimal(@[key])],
        !.total_income = format_decimal(@),
        !.total_expense = format_decimal(@)]

(***************************************************************************)
(* The rn elements a Financial Operations document may hold.               *)
(***************************************************************************)
Rn(kids) == El(<<"rn">>, Attrib({}), kids)
OperType(label, kids) == El(<<"oper_type">>, Attrib({<<"oper_type", label>>}), kids)
Comment(text, kids) == El(<<"comment">>, Attrib({<<"comment", text>>}), kids)
PCode(vol) ==
    El(<<"p_code">>, Attrib({<<"p_code", <<"R", "U", "B">> >>, <<"volume", vol>>}), << >>)

Kupon == <<"K", "u", "p", "o", "n">>

LabelTexts == {<<" ">>, Kupon}
CommentTexts == {<<" ">>, <<"c", "1">>}
VolumeTexts ==
    {<<"0">>, <<"1", "2", ",", "3">>, <<"-", "5">>,
     <<"I", "n", "f", "i", "n", "i", "t", "y">>, <<"N", "a", "N">>}

FinRows ==
    \* the comment nested in the oper_type element
    {Rn(<<OperType(l, <<Comment(c, <<PCode(v)>>)>>)>>) :
        l \in LabelTexts, c \in CommentTexts, v \in VolumeTexts}
    \cup
    {\* the comment a sibling of a childless oper_type element
     Rn(<<OperType(Kupon, << >>), Comment(<<" ">>, <<PCode(<<"0">>)>>)>>),
     Rn(<<OperType(Kupon, << >>), Comment(<<"c", "1">>, <<PCode(<<"-", "5">>)>>)>>),
     \* no oper_type element, no volume
     Rn(<<Comment(<<" ">>, <<PCode(None)>>)>>),
     Rn(<<Comment(<<"c", "1">>, <<PCode(<<"1", "2", ",", "3">>)>>)>>),
     \* no element at all
     Rn(<< >>),
     \* a namespaced row with two candidates, the first one malformed
     El(<<"{urn:x}", "rn">>, Attrib({}),
        <<OperType(Kupon, <<Comment(<<"c", "1">>,
              <<PCode(<<"x">>), PCode(<<"-", "0", ".", "0", "0", "0", "0", "5">>)>>)>>)>>),
     \* the amount in a Textbox element
     Rn(<<OperType(Kupon, <<Comment(<<"c", "1">>,
              <<El(<<"Textbox84">>, Attrib({<<"all_volume", <<" ", "7", " ">> >>}), << >>)>>)>>)>>),
     Rn(<<OperType(Kupon, <<Comment(<<"c", "1">>,
              <<PCode(<<"-", "I", "n", "f">>)>>)>>)>>),
     \* a comment element before the oper_type element, another one in it
     Rn(<<Comment(<<"c", "0">>, <<PCode(<<"1", "2", ",", "3">>)>>),
          OperType(Kupon, <<Comment(<<"c", "1">>, <<PCode(<<"-", "5">>)>>)>>)>>)}

\* What the classifier may answer for a row: should_skip_operation, and
\* determine_operation_type when the row is not skipped by the former.
ClassifierVerdicts ==
    {[skip |-> TRUE, type |-> SkipSentinel]}
    \cup {[skip |-> FALSE, type |-> t] : t \in OperationTypes \cup {SkipSentinel}}

(***************************************************************************)
(* The document tree of the Financial Operations report.  An rn element of *)
(* the tree is identified by its slot number; the elements below it (one   *)
(* of FinRows) are read when the row is processed.                         *)
(***************************************************************************)
BrokerMoneyMove ==
    <<"B", "r", "o", "k", "e", "r", "M", "o", "n", "e", "y", "M", "o", "v", "e">>

\* `name and "BrokerMoneyMove" in name` for rep.attrib.get("Name") or
\* rep.attrib.get("name").
is_money_move_report(rep) ==
    /\ Truthy(Or(Get(rep.attrib, "Name"), Get(rep.attrib, "name")))
    /\ Contains(Or(Get(rep.attrib, "Name"), Get(rep.attrib, "name")), BrokerMoneyMove)

\* The return statements of the loop of _find_report_element: both branches
\* return the Report element at hand.
ReportOrRoot(rep, root) ==
    IF rep = NoElement THEN root
    ELSE IF is_money_move_report(rep) THEN rep
    ELSE rep

\* FinancialOperationsParser._find_report_element
find_report_element(root) ==
    ReportOrRoot(FirstWithLocalName(Iter(root), "Report"), root)

\* FinancialOperationsParser._collect_elements_by_local_name
collect_elements_by_local_name(root, local) ==
    SelectSeq(Iter(root), LAMBDA el : local_name(el.tag) = local)

\* rn_nodes, or the rn-tagged children when rn_nodes is empty.
RnNodesOr(rn_nodes, settlement_node) ==
    IF rn_nodes # << >> THEN rn_nodes
    ELSE SelectSeq(settlement_node.kids, LAMBDA c : local_name(c.tag) = "rn")

\* FinancialOperationsParser._collect_rn_nodes
collect_rn_nodes(settlement_node) ==
    RnNodesOr(collect_elements_by_local_name(settlement_node, "rn"), settlement_node)

\* The rn elements the nested loops of _parse_root visit, in order: for
\* each settlement node in turn, the rn nodes collected under it.
RECURSIVE RnNodesOf(_)
RnNodesOf(settlement_nodes) ==
    IF settlement_nodes = << >> THEN << >>
    ELSE collect_rn_nodes(Head(settlement_nodes)) \o RnNodesOf(Tail(settlement_nodes))

\* The rn elements _parse_root processes for the document root, in order.
parse_root_rows(root) ==
    RnNodesOf(collect_elements_by_local_name(find_report_element(root),
                                             "settlement_date"))

\* The slot numbers of a sequence of rn elements.
SlotsOf(nodes) == [i \in 1..Len(nodes) |-> nodes[i].attrib.slot]

\* The rows _parse_root processes, as slot numbers.
rn_sequence(root) == SlotsOf(parse_root_rows(root))

\* The rn element of slot k, its content not read yet.
Slot(k) == El(<<"rn">>, [slot |-> k], << >>)
\* The rn elements of the slots a..b.
Slots(a, b) == [i \in 1..(b - a + 1) |-> Slot(a + i - 1)]
Group(kids) == El(<<"settlement_date">>, Attrib({<<"settlement_date", IsoDate>>}), kids)
Report(name, kids) == El(<<"Report">>, Attrib({<<"Name", name>>}), kids)
Root(kids) == El(<<"Reports">>, Attrib({}), kids)
OtherName == <<"O", "t", "h", "e", "r">>

\* The documents: a named report with one group of 0..MaxRows rows; two
\* groups; an unnamed Report element alone, and before the named one; no
\* Report element; an rn element outside every group; a group nested in a
\* group.
FinDocs ==
    {Root(<<Report(BrokerMoneyMove, <<Group(Slots(1, n))>>)>>) : n \in 0..MaxRows}
    \cup
    {Root(<<Report(BrokerMoneyMove,
                   <<Group(Slots(1, 1)), Group(Slots(2, MaxRows - 1))>>)>>),
     Root(<<Report(OtherName, <<Group(Slots(1, 1))>>)>>),
     Root(<<Report(OtherName, <<Group(Slots(1, 1))>>),
            Report(BrokerMoneyMove, <<Group(Slots(2, 2))>>)>>),
     Root(<<Group(Slots(1, 1))>>),
     Root(<<Report(BrokerMoneyMove, <<Slot(1), Group(Slots(2, 2))>>)>>),
     Root(<<Report(BrokerMoneyMove,
                   <<Group(Slots(1, MaxRows - 2) \o <<Group(Slots(MaxRows - 1, MaxRows - 1))>>)>>)>>)}

(***************************************************************************)
(* Staging of byte content, the traversal and the release of the staged    *)
(* file: XmlParserBase and the parse methods of the streaming parsers.     *)
(***************************************************************************)
Streaming == {"trades", "transfers"}

\* XmlParserBase.cleanup_tmp_file: unlink is attempted once when the source
\* was staged; it removes the file, or raises and the error is swallowed.
cleanup_tmp_file ==
    IF cleanup_needed
    THEN /\ unlinkCalls' = unlinkCalls + 1
         /\ \E removed \in BOOLEAN : tmpExists' = (tmpExists /\ ~removed)
    ELSE UNCHANGED <<unlinkCalls, tmpExists>>

\* The diagnostics map {"error": str(e), **self.stats}.
WithError(st) ==
    [key \in DOMAIN st \cup {"error"} |-> IF key = "error" THEN "str(e)" ELSE st[key]]

\* parse releasing the staged file only on the normal return (no finally).
StreamingReturn_NoFinally(failed) ==
    /\ retOps' = ops'
    /\ diag' = IF failed THEN WithError(stats') ELSE stats'
    /\ pc' = "returned"
    /\ IF failed THEN UNCHANGED <<unlinkCalls, tmpExists>> ELSE cleanup_tmp_file

\* parse returning no records from its except clause.
StreamingReturn_NoRecords(failed) ==
    /\ retOps' = IF failed THEN << >> ELSE ops'
    /\ diag' = IF failed THEN WithError(stats') ELSE stats'
    /\ pc' = "returned"
    /\ cleanup_tmp_file

\* The return statements of parse and its finally clause: the records and
\* the diagnostics handed to the caller, then the release of the staged file.
StreamingReturn(failed) ==
    /\ retOps' = ops'
    /\ diag' = IF failed THEN WithError(stats') ELSE stats'
    /\ pc' = "returned"
    /\ cleanup_tmp_file

\* XmlParserBase.prepare_xml_source returns: a path is handed on unchanged;
\* byte content is written to the temporary file.
StageOk ==
    /\ pc = "call" /\ parser \in Streaming
    /\ pc' = "traverse"
    /\ cleanup_needed' = (input = "bytes")
    /\ tmpExists' = (input = "bytes")
    /\ UNCHANGED <<parser, input, doc, seen, unlinkCalls, stats, ops, outcomes, cur, cls, retOps, diag>>

\* XmlParserBase.prepare_xml_source raises: write_bytes failed, before or
\* after it created the file.  parse has no handler around the call.
StageFail ==
    /\ pc = "call" /\ parser \in Streaming /\ input = "bytes"
    /\ pc' = "raised"
    /\ \E created \in BOOLEAN : tmpExists' = created
    /\ UNCHANGED <<parser, input, doc, seen, cleanup_needed, unlinkCalls, stats, ops,
                   outcomes, cur, cls, retOps, diag>>

\* One iteration of the loop of parse on a details element.
ProcessDetails(elem, st, idx, dtoOk) ==
    IF parser = "trades" THEN TradesProcessDetails(elem, st, idx, dtoOk)
    ELSE TransfersProcessDetails(elem, st, idx, dtoOk)

DetailsRow ==
    /\ pc = "traverse" /\ parser \in Streaming
    /\ Len(outcomes) < MaxRows
    /\ \E elem \in (IF parser = "trades" THEN TradesRows ELSE TransfersRows),
          dtoOk \in BOOLEAN :
          \E r \in {ProcessDetails(elem, stats, Len(outcomes) + 1, dtoOk)} :
              /\ cur' = elem
              /\ stats' = r.stats
              /\ outcomes' = Append(outcomes, r.how)
              /\ ops' = IF r.how = "parsed" THEN Append(ops, r.op) ELSE ops
              /\ IF r.how = "raised"
                 THEN StreamingReturn(TRUE)
                 ELSE UNCHANGED <<pc, tmpExists, unlinkCalls, retOps, diag>>
    /\ UNCHANGED <<parser, input, doc, seen, cleanup_needed, cls>>

\* The iterator is exhausted: return ops, self.stats.copy().
TraverseEnd ==
    /\ pc = "traverse" /\ parser \in Streaming
    /\ UNCHANGED <<stats, ops>>
    /\ StreamingReturn(FALSE)
    /\ UNCHANGED <<parser, input, doc, seen, cleanup_needed, outcomes, cur, cls>>

\* ET.iterparse raises (unreadable path, malformed document).
TraverseFail ==
    /\ pc = "traverse" /\ parser \in Streaming
    /\ UNCHANGED <<stats, ops>>
    /\ StreamingReturn(TRUE)
    /\ UNCHANGED <<parser, input, doc, seen, cleanup_needed, outcomes, cur, cls>>

\* FinancialOperationsParser.parse: _parse_bytes / _parse_file raises
\* (unreadable path, malformed document); no temporary file is staged.
FinParseFail ==
    /\ pc = "call" /\ parser = "fin"
    /\ retOps' = << >>
    /\ diag' = WithError(stats)
    /\ pc' = "returned"
    /\ UNCHANGED <<parser, input, doc, seen, cleanup_needed, tmpExists, unlinkCalls, stats,
                   ops, outcomes, cur, cls>>

\* The document tree is built (ET.fromstring / ET.parse returned);
\* _parse_root starts on its rows.
FinParseOk ==
    /\ pc = "call" /\ parser = "fin"
    /\ pc' = "traverse"
    /\ doc' \in FinDocs
    /\ UNCHANGED <<parser, input, seen, cleanup_needed, tmpExists, unlinkCalls, stats,
                   ops, outcomes, cur, cls, retOps, diag>>

\* The slot of the rn element the row loop of _parse_root is at.
NextSlot == rn_sequence(doc)[Len(outcomes) + 1]

\* The content an rn element may have: what was read from it before when
\* the loop has already visited it, any of FinRows otherwise.
RowsOfSlot(slot) == IF slot \in DOMAIN seen THEN {seen[slot].node} ELSE FinRows

\* The classifier answers for the row; its entry points are pure functions
\* of the row, so a row visited again gets the answers it got before.
VerdictsOfSlot(slot) ==
    IF slot \in DOMAIN seen THEN {seen[slot].verdict} ELSE ClassifierVerdicts

\* The rn elements read so far that the loop will visit again.
Remember(slot, rn_node, verdict) ==
    [k \in {j \in DOMAIN seen \cup {slot} :
               \E i \in (Len(outcomes) + 2)..Len(rn_sequence(doc)) :
                   rn_sequence(doc)[i] = j} |->
        IF k = slot THEN [node |-> rn_node, verdict |-> verdict] ELSE seen[k]]

\* One iteration of the row loop of _parse_root.  An exception of the row
\* handler ends parse in its except clause: [], {"error": ..., **self.stats}.
RnRow ==
    /\ pc = "traverse" /\ parser = "fin"
    /\ Len(outcomes) < Len(rn_sequence(doc))
    /\ \E rn_node \in RowsOfSlot(NextSlot), verdict \in VerdictsOfSlot(NextSlot) :
          \E r \in {process_rn_node(rn_node, stats, Len(outcomes) + 1,
                                   verdict.skip, verdict.type)} :
              /\ cur' = rn_node
              /\ cls' = verdict
              /\ seen' = Remember(NextSlot, rn_node, verdict)
              /\ stats' = r.stats
              /\ outcomes' = Append(outcomes, r.how)
              /\ ops' = IF r.how = "parsed" THEN Append(ops, r.op) ELSE ops
              /\ IF r.how = "raised"
                 THEN /\ retOps' = << >>
                      /\ diag' = WithError(r.stats)
                      /\ pc' = "returned"
                 ELSE UNCHANGED <<pc, retOps, diag>>
    /\ UNCHANGED <<parser, input, doc, cleanup_needed, tmpExists, unlinkCalls>>

\* _parse_root returns ops, self._finalize_stats().
FinFinish ==
    /\ pc = "traverse" /\ parser = "fin"
    /\ Len(outcomes) = Len(rn_sequence(doc))
    /\ retOps' = ops
    /\ diag' = finalize_stats(stats)
    /\ pc' = "returned"
    /\ UNCHANGED <<parser, input, doc, seen, cleanup_needed, tmpExists, unlinkCalls, stats,
                   ops, outcomes, cur, cls>>

Init ==
    /\ parser \in Streaming \cup {"fin"}
    /\ input \in {"path", "bytes"}
    /\ pc = "call"
    /\ cleanup_needed = FALSE
    /\ tmpExists = FALSE
    /\ unlinkCalls = 0
    /\ stats = (CASE parser = "trades" -> TradesInitStats
                  [] parser = "transfers" -> TransfersInitStats
                  [] parser = "fin" -> FinInitStats)
    /\ ops = << >>
    /\ outcomes = << >>
    /\ cur = Attrib({})
    /\ retOps = << >>
    /\ diag = Attrib({})
    /\ cls = [skip |-> FALSE, type |-> SkipSentinel]
    /\ doc = NoElement
    /\ seen = [k \in {} |-> NoElement]

Next ==
    \/ StageOk
    \/ StageFail
    \/ DetailsRow
    \/ TraverseEnd
    \/ TraverseFail
    \/ FinParseFail
    \/ FinParseOk
    \/ RnRow
    \/ FinFinish

Spec == Init /\ [][Next]_vars

(***************************************************************************)
(* Properties.                                                             *)
(***************************************************************************)
Returned == pc = "returned"
HasError == "error" \in DOMAIN diag
Last(seq) == seq[Len(seq)]
\* A row handler ran in this step.
RowStep == Len(outcomes') = Len(outcomes) + 1
\* The positions of the rows that ended the way how.
RowsThat(how) == {i \in 1..Len(outcomes) : outcomes[i] = how}
\* The rows whose handler ran to its end.
FullyProcessed == {i \in 1..Len(outcomes) : outcomes[i] # "raised"}

\* C1: every call of a public entry point ends by returning its pair of
\* records and diagnostics; no call ends with an exception reaching the
\* caller, whatever the input and whatever fails.
C1_NeverRaises == pc # "raised"

\* C2, as stated: once a streaming parser given byte content has returned,
\* the release step has run exactly once and the staged file is gone.
C2_FileGoneAfterReturn ==
    (parser \in Streaming /\ input = "bytes" /\ Returned)
        => (unlinkCalls = 1 /\ ~tmpExists)

\* C2, amended: a streaming parser given byte content makes exactly one
\* attempt to delete the staged file, at the moment it returns, whether the
\* traversal completed or raised, and none before; given a path it makes
\* none.  (The attempt may fail; the failure is swallowed and the file stays.)
C2_ReleaseExactlyOnce ==
    parser \in Streaming =>
        /\ Returned => unlinkCalls = (IF input = "bytes" THEN 1 ELSE 0)
        /\ ~Returned => unlinkCalls = 0
        /\ (pc = "traverse" /\ input = "bytes") => tmpExists
        /\ (Returned /\ tmpExists) => input = "bytes"

\* C2 witness: byte content, the traversal raised, the file was released.
C2_Witness ==
    /\ parser \in Streaming /\ input = "bytes" /\ Returned /\ HasError
    /\ unlinkCalls = 1 /\ ~tmpExists /\ Len(outcomes) = 1

C4_ErrorOnlyBeforeRows ==
    (parser = "fin" /\ Returned /\ HasError) =>
        /\ retOps = << >>
        /\ diag.total_rows = 0 /\ diag.parsed = 0 /\ diag.skipped = 0

\* C5: a Trades row whose quantity resolves to zero gives no record, adds
\* one to skipped_no_qty and one to total_rows and changes no other counter,
\* whatever its other attributes are.
C5_ZeroQuantitySkipped ==
    [][(parser = "trades" /\ RowStep /\ extract_quantity(normalize_attrib(cur')) = 0)
           => /\ ops' = ops
              /\ stats' = [stats EXCEPT !.total_rows = @ + 1, !.skipped_no_qty = @ + 1]
              /\ pc' = pc]_vars

\* C5 witness: a row with a date and a blank name whose quantity "0,4"
\* rounds to zero was skipped for its quantity.
C5_Witness ==
    /\ parser = "trades" /\ Len(outcomes) = 2
    /\ Get(cur, "qty") = <<"0", ",", "4">>
    /\ Get(cur, "db_time") = DtFull
    /\ Get(cur, "p_name") = <<" ">>
    /\ Last(outcomes) = "skipped_no_qty"
    /\ stats.skipped_no_qty = 1 /\ stats.parsed = 1

\* The row carries none of the recognized date attributes.
NoDateAttribute(elem) ==
    \A i \in 1..Len(date_keys) : date_keys[i] \notin DOMAIN normalize_attrib(elem)

\* C6, as stated: a Trades row with none of the recognized date attributes,
\* whatever its quantity, gives no record and adds one to skipped_no_date.
C6_NoDateSkipped_AnyQuantity ==
    [][(parser = "trades" /\ RowStep /\ NoDateAttribute(cur'))
           => /\ ops' = ops
              /\ stats'.skipped_no_date = stats.skipped_no_date + 1]_vars

\* C6, amended: a Trades row with none of the recognized date attributes
\* gives no record; when its quantity is not zero it adds one to
\* skipped_no_date and one to total_rows and changes no other counter (a
\* zero quantity is counted under skipped_no_qty instead).
C6_NoDateSkipped ==
    [][(parser = "trades" /\ RowStep /\ NoDateAttribute(cur'))
           => /\ ops' = ops
              /\ extract_quantity(normalize_attrib(cur')) # 0
                     => stats' = [stats EXCEPT !.total_rows = @ + 1,
                                               !.skipped_no_date = @ + 1]]_vars

\* C6 witness: a row with quantity 3 and no date attribute was skipped for
\* its date.
C6_Witness ==
    /\ parser = "trades" /\ Len(outcomes) >= 1
    /\ NoDateAttribute(cur)
    /\ extract_quantity(normalize_attrib(cur)) = 3
    /\ Last(outcomes) = "skipped_no_date"
    /\ stats.skipped_no_date = 1

\* C7: every record emitted by the Trades and Transfers parsers has a
\* strictly positive quantity, the absolute value of the raw quantity of its
\* row, and is a buy / asset_receive exactly when the raw quantity is
\* positive and a sale / asset_withdrawal exactly when it is negative.
C7_QuantityIsMagnitude ==
    (parser \in Streaming /\ outcomes # << >> /\ Last(outcomes) = "parsed") =>
        LET rec == Last(ops)
            a   == normalize_attrib(cur)
        IN  IF parser = "trades"
            THEN LET raw == extract_quantity(a)
                 IN  /\ rec.quantity > 0
                     /\ rec.quantity = (IF raw < 0 THEN 0 - raw ELSE raw)
                     /\ rec.operation_type = "buy" <=> raw > 0
                     /\ rec.operation_type = "sale" <=> raw < 0
            ELSE LET raw == to_float_safe(Or(Get(a, "qty"), <<"0">>))
                 IN  /\ IsPositive(rec.quantity)
                     /\ rec.quantity = Abs(raw)
                     /\ rec.operation_type = "asset_receive" <=> IsPositive(raw)
                     /\ rec.operation_type = "asset_withdrawal" <=> IsNegative(raw)

\* The oper_type of the row, lowercased and trimmed, is not "perevod".
NotPerevod(elem) ==
    Lower(Strip(Or(Get(normalize_attrib(elem), "oper_type"), << >>))) # Perevod

\* C8: a Transfers row whose oper_type, lowercased and trimmed, is not
\* "perevod" gives no record and adds one to skipped_not_conversion (and to
\* total_rows), whatever its comment_new, qty and date attributes are;
\* skipped_no_qty, skipped_no_date, skipped_invalid and parsed keep their
\* values.
C8_NotPerevodSkipped ==
    [][(parser = "transfers" /\ RowStep /\ NotPerevod(cur'))
           => /\ ops' = ops
              /\ stats' = [stats EXCEPT !.total_rows = @ + 1,
                                        !.skipped_not_conversion = @ + 1]
              /\ pc' = pc]_vars

\* C8 witness: a row that is no "perevod" but has a conversion comment, a
\* quantity and a date was skipped as not a conversion.
C8_Witness ==
    /\ parser = "transfers" /\ Len(outcomes) >= 1
    /\ NotPerevod(cur)
    /\ Contains(Lower(Get(cur, "comment_new")), Konvertaciya)
    /\ Get(cur, "qty") = <<"-", "2">>
    /\ Get(cur, "settlement_date") = IsoDate
    /\ Last(outcomes) = "skipped_not_conversion"
    /\ stats.skipped_not_conversion = 1

\* The label and the comment the parser reads from the row are both empty
\* or blank, and its amount is zero.
BlankZeroRow(rn_node) ==
    LET oc == extract_oper_type_and_comment(rn_node)
        ca == extract_currency_and_amount(rn_node)
    IN  /\ Strip(Or(oc.oper_type, << >>)) = << >>
        /\ Strip(Or(oc.comment, << >>)) = << >>
        /\ (ca.amount = NoNumber \/ IsZero(ca.amount))

\* C9: a Financial Operations row whose label and comment are both empty or
\* blank and whose amount is zero is skipped (no record, skipped and
\* total_rows one more, nothing else changed), whatever the classifier
\* answers for the row.
C9_BlankZeroRowSkipped ==
    [][(parser = "fin" /\ RowStep /\ BlankZeroRow(cur'))
           => /\ ops' = ops
              /\ stats' = [stats EXCEPT !.total_rows = @ + 1, !.skipped = @ + 1]
              /\ pc' = pc]_vars

\* C9 witness: such a row, with an oper_type and a comment element, was
\* skipped although the classifier would keep it and give it a type.
C9_Witness ==
    /\ parser = "fin" /\ Len(outcomes) >= 1
    /\ BlankZeroRow(cur)
    /\ find_first_descendant_by_local_name(cur, "comment") # NoElement
    /\ find_first_descendant_by_local_name(cur, "oper_type") # NoElement
    /\ cls.skip = FALSE /\ cls.type \in OperationTypes
    /\ Last(outcomes) = "skipped_empty"
    /\ stats.skipped = 1 /\ stats.total_rows = 1

\* The text is digits, a point and exactly four digits (after a sign).
FourDecimals(text) ==
    /\ Len(text) >= 6
    /\ text[Len(text) - 4] = "."
    /\ \A i \in 1..Len(text) :
          \/ i = Len(text) - 4
          \/ IsDigit(text[i])
          \/ (i = 1 /\ text[i] = "-")

\* The rendered values of a diagnostics map and the sums they render.
RenderedPairs ==
    {<<stats.total_income, diag.total_income>>,
     <<stats.total_expense, diag.total_expense>>}
    \cup {<<stats.amounts_by_mapped_type[t], diag.amounts_by_mapped_type[t]>> :
             t \in DOMAIN stats.amounts_by_mapped_type}
    \cup {<<stats.amounts_by_label[l], diag.amounts_by_label[l]>> :
             l \in DOMAIN stats.amounts_by_label}

\* C10, as stated: after a successful Financial Operations parse every
\* rendered sum has exactly four digits after the decimal point.
C10_AlwaysFourDecimals ==
    (parser = "fin" /\ Returned /\ ~HasError) =>
        \A pair \in RenderedPairs : FourDecimals(pair[2])

\* The sum is finite and its coefficient at exponent -4 fits the precision.
Quantizable(d) ==
    /\ d.k = "fin"
    /\ (d.c = 0 \/ d.e < -4 \/ Len(IntToDigits(d.c)) + d.e + 4 <= prec)

\* C10, amended: after a successful Financial Operations parse every
\* rendered sum that is finite and fits the decimal precision at four places
\* has exactly four digits after the decimal point; an infinite sum (the
\* parser accepts "Infinity" as an amount) is rendered by its name.
C10_FiniteFourDecimals ==
    (parser = "fin" /\ Returned /\ ~HasError) =>
        /\ DOMAIN diag.amounts_by_mapped_type = DOMAIN stats.amounts_by_mapped_type
        /\ DOMAIN diag.amounts_by_label = DOMAIN stats.amounts_by_label
        /\ \A pair \in RenderedPairs :
              /\ Quantizable(pair[1]) => FourDecimals(pair[2])
              /\ pair[1].k = "inf" => pair[2] = DecimalStr(pair[1])

\* C10 witness: two rows of 12,3 accumulated to 24.6 and rendered "24.6000",
\* the expense sum rendered "0.0000".
C10_Witness ==
    /\ parser = "fin" /\ Returned /\ ~HasError
    /\ stats.parsed = 2
    /\ diag.total_income = <<"2", "4", ".", "6", "0", "0", "0">>
    /\ diag.total_expense = <<"0", ".", "0", "0", "0", "0">>
    /\ \E t \in DOMAIN diag.amounts_by_mapped_type :
          diag.amounts_by_mapped_type[t] = <<"1", "2", ".", "3", "0", "0", "0">>

\* The sum of the skip counters of a streaming parser's diagnostics map.
SkipSum(d) ==
    d.skipped_no_qty + d.skipped_no_date + d.skipped_invalid
        + (IF "skipped_not_conversion" \in DOMAIN d
           THEN d.skipped_not_conversion ELSE 0)

\* C11: after any Trades or Transfers parse, with or without the error key,
\* total_rows equals parsed plus the sum of the skip counters (every details
\* element met was counted once in total_rows and once in exactly one of
\* the others) and the number of records returned equals parsed.
C11_CountersPartitionRows ==
    (parser \in Streaming /\ Returned) =>
        /\ diag.total_rows = diag.parsed + SkipSum(diag)
        /\ Len(retOps) = diag.parsed

\* A Financial Operations row handler has run; cur is the row it ran on.
FinRowDone == parser = "fin" /\ outcomes # << >>

\* The stripped oper_type attribute of the first oper_type-tagged descendant
\* of the row, None when there is no such element or the attribute is blank.
OperTypeAttribute(rn_node) ==
    StripOrNone(Get(FirstWithLocalName(Iter(rn_node), "oper_type").attrib,
                    "oper_type"))

\* C12: the raw label of a row is the oper_type attribute of the first
\* oper_type-tagged descendant of the rn element whenever that attribute is
\* non-empty, with or without child elements under the oper_type element;
\* so a row that gave a record has its sum filed under that label.
C12_LabelIsOperTypeAttribute ==
    (FinRowDone /\ OperTypeAttribute(cur) # None) =>
        /\ extract_oper_type_and_comment(cur).oper_type = OperTypeAttribute(cur)
        /\ Last(outcomes) = "parsed" =>
              OperTypeAttribute(cur) \in DOMAIN stats.amounts_by_label

\* A Financial Operations parse has returned without the error key.
FinSucceeded == parser = "fin" /\ Returned /\ ~HasError

\* The first element of it that is a Report element whose Name / name
\* attribute contains "BrokerMoneyMove", NoElement when there is none.
FirstMoneyMoveReport(it) ==
    IF \A i \in 1..Len(it) :
          ~(local_name(it[i].tag) = "Report" /\ is_money_move_report(it[i]))
    THEN NoElement
    ELSE it[CHOOSE i \in 1..Len(it) :
                /\ local_name(it[i].tag) = "Report" /\ is_money_move_report(it[i])
                /\ \A j \in 1..(i - 1) :
                      ~(local_name(it[j].tag) = "Report" /\ is_money_move_report(it[j]))]

\* The report root as stated: the Report element named BrokerMoneyMove when
\* the document has one, otherwise the first Report element, otherwise the
\* document root.
PreferredReport(root) ==
    ElementOr(FirstMoneyMoveReport(Iter(root)),
              ElementOr(FirstWithLocalName(Iter(root), "Report"), root))

\* C13: the settlement_date groups parsed are those of the Report element
\* whose Name contains "BrokerMoneyMove" when the document has one, even if
\* an unnamed Report element precedes it; otherwise those of the first
\* Report element; and those of the document root when there is no Report.
C13_NamedReportPreferred ==
    FinSucceeded =>
        /\ find_report_element(doc) = PreferredReport(doc)
        /\ rn_sequence(doc)
              = SlotsOf(RnNodesOf(collect_elements_by_local_name(
                            PreferredReport(doc), "settlement_date")))

\* The first comment-tagged element of the whole row.
RowComment(rn_node) == FirstWithLocalName(Iter(rn_node), "comment")

\* The p_code candidates of the row, in document order.
RowCandidates(rn_node) == collect_p_code_candidates(RowComment(rn_node))

\* The raw volume / volume1 / amount value of a candidate.
VolumeOf(c) == Or(Get(c, "volume"), Or(Get(c, "volume1"), Get(c, "amount")))

\* The amount the Textbox fallback gives for the row, zero when none.
TextboxAmount(rn_node) ==
    OrZero(AmountOfTextboxes(extract_textbox_values(RowComment(rn_node)),
                             <<"money_volume", "all_volume", "debet_volume">>))

\* The candidates with a non-empty raw value, and those whose value parses.
NonEmptyAt(cands) == {i \in 1..Len(cands) : Truthy(VolumeOf(cands[i]))}
ParsableAt(cands) ==
    {i \in NonEmptyAt(cands) : parse_decimal(Strip(VolumeOf(cands[i]))) # NoNumber}

\* The least element of a non-empty set of positions.
First(S) == CHOOSE i \in S : \A j \in S : i <= j

\* The amount extracted for the row agrees with the record, if it gave one.
AmountIs(a) ==
    /\ extract_currency_and_amount(cur).amount = a
    /\ Last(outcomes) = "parsed" => Last(ops).payment_sum = decimal_to_float(a)

\* C14, as stated: the first candidate with a non-empty volume / volume1 /
\* amount decides the amount; when its value is malformed no later candidate
\* is consulted and the amount is the Textbox fallback or zero.
C14_FirstNonEmptyDecides ==
    (FinRowDone /\ NonEmptyAt(RowCandidates(cur)) # {}) =>
        IF First(NonEmptyAt(RowCandidates(cur))) \in ParsableAt(RowCandidates(cur))
        THEN AmountIs(OrZero(parse_decimal(Strip(VolumeOf(
                 RowCandidates(cur)[First(NonEmptyAt(RowCandidates(cur)))])))))
        ELSE AmountIs(TextboxAmount(cur))

\* C14, amended: the first candidate, in document order, whose non-empty
\* volume / volume1 / amount parses decides the amount (a malformed value is
\* passed over and later candidates are consulted); only when no candidate
\* has a value that parses is the amount the Textbox fallback or zero.
C14_FirstParsableDecides ==
    (FinRowDone /\ RowComment(cur) # NoElement) =>
        IF ParsableAt(RowCandidates(cur)) # {}
        THEN AmountIs(OrZero(parse_decimal(Strip(VolumeOf(
                 RowCandidates(cur)[First(ParsableAt(RowCandidates(cur)))])))))
        ELSE AmountIs(TextboxAmount(cur))

\* C14 witness: a row whose first candidate is malformed and whose second
\* one parses gave a record with the second candidate's amount.
C14_Witness ==
    /\ FinRowDone /\ Last(outcomes) = "parsed"
    /\ Len(RowCandidates(cur)) = 2
    /\ ParsableAt(RowCandidates(cur)) = {2}
    /\ NonEmptyAt(RowCandidates(cur)) = {1, 2}
    /\ Last(ops).payment_sum = FloatOf(Fin(-1, 5, -5))

\* The comment element of the row as stated: the first comment-tagged
\* element inside the oper_type element and, only if there is none there,
\* the first one of the whole row.
StatedComment(rn_node) ==
    comment_elem_of(rn_node, FirstWithLocalName(Iter(rn_node), "oper_type"))

\* C15: for every rn row, one and the same comment element (the first one
\* inside the oper_type element, else the first one of the row) supplies
\* the comment text through its comment attribute and the currency and
\* the payment sum through its subtree.
C15_OneCommentElement ==
    FinRowDone =>
        /\ extract_oper_type_and_comment(cur).comment
              = Or(safe_attr(StatedComment(cur), "comment"), << >>)
        /\ extract_currency_and_amount(cur) = CurrencyAndAmount(StatedComment(cur))
        /\ Last(outcomes) = "parsed" =>
              /\ Last(ops).comment = Or(safe_attr(StatedComment(cur), "comment"), << >>)
              /\ Last(ops).currency = CurrencyAndAmount(StatedComment(cur)).currency
              /\ Last(ops).payment_sum
                    = decimal_to_float(CurrencyAndAmount(StatedComment(cur)).amount)

\* The slots of the rn elements among els and their descendants that lie
\* under a settlement_date element (inGroup: els already lie under one).
RECURSIVE RnSlotsIn(_, _)
RnSlotsIn(els, inGroup) ==
    IF els = << >> THEN {}
    ELSE (IF inGroup /\ local_name(Head(els).tag) = "rn"
          THEN {Head(els).attrib.slot} ELSE {})
         \cup RnSlotsIn(Head(els).kids,
                        inGroup \/ local_name(Head(els).tag) = "settlement_date")
         \cup RnSlotsIn(Tail(els), inGroup)

\* The rn elements lying under a settlement_date element of the report root.
GroupedRows == RnSlotsIn(<<find_report_element(doc)>>, FALSE)

\* C16: in a successful Financial Operations parse every rn element under a
\* settlement_date element of the report root is processed exactly once:
\* total_rows is the number of those elements, total_rows = parsed +
\* skipped, and no rn element gives more than one record, nested
\* settlement_date elements included.
C16_EachRowOnce ==
    FinSucceeded =>
        /\ diag.total_rows = Cardinality(GroupedRows)
        /\ diag.total_rows = diag.parsed + diag.skipped
        /\ \A i, j \in 1..Len(retOps) :
              i < j => rn_sequence(doc)[retOps[i].row] # rn_sequence(doc)[retOps[j].row]

(***************************************************************************)
(* C17: the aggregates of the Financial Operations parser against the      *)
(* records it has emitted.                                                 *)
(***************************************************************************)

\* a + b in exact decimals where either side may already be undefined
\* (Decimal raises InvalidOperation on Infinity + -Infinity).
Plus(a, b) == IF a = NoNumber \/ b = NoNumber THEN NoNumber ELSE DecimalAdd(a, b)

\* The sum of the values of d at keys.
RECURSIVE SumOver(_, _)
SumOver(d, keys) ==
    IF keys = {} THEN Zero
    ELSE Plus(d[CHOOSE key \in keys : TRUE],
              SumOver(d, keys \ {CHOOSE key \in keys : TRUE}))

\* The two hold the same number.
SameValue(a, b) ==
    IF a.k = "fin" /\ b.k = "fin" THEN Scaled(a, Min(a.e, b.e)) = Scaled(b, Min(a.e, b.e))
    ELSE a = b

\* The decimal amount of the row a record was emitted from: its payment_sum
\* is that amount, or the float nearest to it.
RowAmount(op) ==
    IF op.payment_sum.k = "near" THEN [op.payment_sum EXCEPT !.k = "fin"]
    ELSE op.payment_sum

RowAmounts == [i \in 1..Len(ops) |-> RowAmount(ops[i])]

\* The payment_sum floats of the records add up to the decimal total: they
\* do when every one of them holds its row's amount exactly and the amounts
\* add up to total; when some are only nearest floats, the sum is a float
\* and can equal total at most when a float can hold total.
PaymentsSumTo(total) ==
    IF \A i \in 1..Len(ops) : ops[i].payment_sum.k # "near"
    THEN SameValue(SumOver(RowAmounts, 1..Len(ops)), total)
    ELSE total.k = "fin" /\ Dyadic(total)

\* Rows have been handled and none of them raised.
RowsAccepted ==
    /\ parser = "fin" /\ pc = "traverse"
    /\ RowsThat("raised") = {}

SumByType == SumOver(stats.amounts_by_mapped_type, DOMAIN stats.amounts_by_mapped_type)

AggregatesUnchanged ==
    /\ stats'.amounts_by_mapped_type = stats.amounts_by_mapped_type
    /\ stats'.total_income = stats.total_income
    /\ stats'.total_expense = stats.total_expense
    /\ ops' = ops

====
